---- MODULE Spec2Model ----
(***************************************************************************)
(* Model of src/searchindex.js, the Sphinx search index of the datastep    *)
(* documentation.  The file is one JavaScript statement,                   *)
(*     Search.setIndex({docnames:[...], envversion:{...}, ...})            *)
(* The model follows its evaluation: the object literal is built property  *)
(* by property in source order (a later definition of a key replaces an    *)
(* earlier one), and the finished object is handed to Search.setIndex,     *)
(* which stores it as the index.                                           *)
(*                                                                         *)
(* JavaScript values are tagged with their type:                           *)
(*     [kind |-> "number", num |-> n]      a number                        *)
(*     [kind |-> "string", str |-> s]      a string                        *)
(*     [kind |-> "array",  elems |-> q]    an array (elements untagged)    *)
(*     [kind |-> "object", map |-> f]      an object, f : key -> value     *)
(*     [kind |-> "objlit", props |-> q]    an object literal of the source *)
(*                                         text, q a sequence of           *)
(*                                         <<key, value expression>>       *)
(*     [kind |-> "undefined"]              no value                        *)
(***************************************************************************)
EXTENDS Integers, Sequences, FiniteSets, TLC

VARIABLES stmt, pc, top, inner, cur, obj, index, calls

vars == <<stmt, pc, top, inner, cur, obj, index, calls>>

Num(n) == [kind |-> "number", num |-> n]

Str(s) == [kind |-> "string", str |-> s]

Arr(q) == [kind |-> "array", elems |-> q]

Obj(q) == [kind |-> "objlit", props |-> q]

ObjVal(f) == [kind |-> "object", map |-> f]

Undefined == [kind |-> "undefined"]

(***************************************************************************)
(* The source text, one definition per property of the index literal, in   *)
(* source order.                                                           *)
(***************************************************************************)
\* docnames with its last document left out
docnames_missingLast ==
  Arr(<< "contributing", "datastep", "datastep.bin", "index", "installation" >>)

docnames ==
  Arr(<< "contributing", "datastep", "datastep.bin", "index", "installation", "modules" >>)

envversion ==
  Obj(<< <<"sphinx.domains.c", Num(1)>>, <<"sphinx.domains.changeset", Num(1)>>,
     <<"sphinx.domains.citation", Num(1)>>, <<"sphinx.domains.cpp", Num(1)>>,
     <<"sphinx.domains.index", Num(1)>>, <<"sphinx.domains.javascript", Num(1)>>,
     <<"sphinx.domains.math", Num(2)>>, <<"sphinx.domains.python", Num(1)>>,
     <<"sphinx.domains.rst", Num(1)>>, <<"sphinx.domains.std", Num(1)>>,
     <<"sphinx.ext.viewcode", Num(1)>>, <<"sphinx", Num(56)>> >>)

\* filenames with its last entry left out
filenames_missingLast ==
  Arr(<< "contributing.rst", "datastep.rst", "datastep.bin.rst", "index.rst", "installation.rst" >>)

filenames ==
  Arr(<< "contributing.rst", "datastep.rst", "datastep.bin.rst", "index.rst", "installation.rst",
     "modules.rst" >>)

\* the entry of datastep written without its anchor
objects_toplevel_noAnchor ==
  Obj(<< <<"datastep", Arr(<<1, 0, 0>>)>> >>)

objects_toplevel ==
  Obj(<< <<"datastep", Arr(<<1, 0, 0, "-">>)>> >>)

\* the module make_new_step written with the priority and anchor of a plain object
objects_datastep_bin_asPlain ==
  Obj(<< <<"make_new_step", Arr(<<2, 0, 1, "">>)>> >>)

objects_datastep_bin ==
  Obj(<< <<"make_new_step", Arr(<<2, 0, 0, "-">>)>> >>)

objects_datastep_bin_make_new_step ==
  Obj(<< <<"Args", Arr(<<2, 1, 1, "">>)>>, <<"find_last_import_line", Arr(<<2, 2, 1, "">>)>>,
     <<"insert_new_class", Arr(<<2, 2, 1, "">>)>>, <<"insert_new_import", Arr(<<2, 2, 1, "">>)>>,
     <<"line_match__all__", Arr(<<2, 2, 1, "">>)>>,
     <<"list_match_in_line", Arr(<<2, 2, 1, "">>)>>, <<"main", Arr(<<2, 2, 1, "">>)>> >>)

objects_datastep_exceptions ==
  Obj(<< <<"DirectoryNotFoundError", Arr(<<1, 3, 1, "">>)>>,
     <<"InvalidGitStatus", Arr(<<1, 3, 1, "">>)>>, <<"PackagingError", Arr(<<1, 3, 1, "">>)>> >>)

objects_datastep_file_utils ==
  Obj(<< <<"create_unique_logical_key", Arr(<<1, 2, 1, "">>)>>,
     <<"make_json_serializable", Arr(<<1, 2, 1, "">>)>>,
     <<"manifest_filepaths_abs2rel", Arr(<<1, 2, 1, "">>)>>,
     <<"manifest_filepaths_rel2abs", Arr(<<1, 2, 1, "">>)>>,
     <<"resolve_directory", Arr(<<1, 2, 1, "">>)>>, <<"resolve_filepath", Arr(<<1, 2, 1, "">>)>> >>)

objects_datastep_quilt_utils ==
  Obj(<< <<"ValidationDetails", Arr(<<1, 1, 1, "">>)>>, <<"clean_metadata", Arr(<<1, 2, 1, "">>)>>,
     <<"create_package", Arr(<<1, 2, 1, "">>)>>, <<"route_validator", Arr(<<1, 2, 1, "">>)>>,
     <<"validate_filepath", Arr(<<1, 2, 1, "">>)>>, <<"validate_manifest", Arr(<<1, 2, 1, "">>)>> >>)

objects_datastep_quilt_utils_ValidationDetails ==
  Obj(<< <<"details_type", Arr(<<1, 4, 1, "">>)>>, <<"index", Arr(<<1, 4, 1, "">>)>>,
     <<"origin_column", Arr(<<1, 4, 1, "">>)>>, <<"value", Arr(<<1, 4, 1, "">>)>> >>)

\* the class Step recorded as a function
objects_datastep_step_asFunction ==
  Obj(<< <<"Step", Arr(<<1, 2, 1, "">>)>>, <<"log_run_params", Arr(<<1, 2, 1, "">>)>> >>)

objects_datastep_step ==
  Obj(<< <<"Step", Arr(<<1, 1, 1, "">>)>>, <<"log_run_params", Arr(<<1, 2, 1, "">>)>> >>)

objects_datastep_step_Step ==
  Obj(<< <<"checkout", Arr(<<1, 4, 1, "">>)>>, <<"clean", Arr(<<1, 4, 1, "">>)>>,
     <<"get_result", Arr(<<1, 4, 1, "">>)>>,
     <<"manifest_filepaths_abs2rel", Arr(<<1, 4, 1, "">>)>>,
     <<"manifest_filepaths_rel2abs", Arr(<<1, 4, 1, "">>)>>,
     <<"project_local_staging_dir", Arr(<<1, 4, 1, "">>)>>, <<"pull", Arr(<<1, 4, 1, "">>)>>,
     <<"push", Arr(<<1, 4, 1, "">>)>>, <<"quilt_package_name", Arr(<<1, 4, 1, "">>)>>,
     <<"quilt_package_owner", Arr(<<1, 4, 1, "">>)>>, <<"run", Arr(<<1, 4, 1, "">>)>>,
     <<"step_local_staging_dir", Arr(<<1, 4, 1, "">>)>>, <<"step_name", Arr(<<1, 4, 1, "">>)>>,
     <<"storage_bucket", Arr(<<1, 4, 1, "">>)>>, <<"upstream_tasks", Arr(<<1, 4, 1, "">>)>> >>)

objects_datastep ==
  Obj(<< <<"bin", Arr(<<2, 0, 0, "-">>)>>, <<"constants", Arr(<<1, 0, 0, "-">>)>>,
     <<"exceptions", Arr(<<1, 0, 0, "-">>)>>, <<"file_utils", Arr(<<1, 0, 0, "-">>)>>,
     <<"get_module_version", Arr(<<1, 2, 1, "">>)>>, <<"quilt_utils", Arr(<<1, 0, 0, "-">>)>>,
     <<"step", Arr(<<1, 0, 0, "-">>)>> >>)

objects ==
  Obj(<< <<"", objects_toplevel>>, <<"datastep.bin", objects_datastep_bin>>,
     <<"datastep.bin.make_new_step", objects_datastep_bin_make_new_step>>,
     <<"datastep.exceptions", objects_datastep_exceptions>>,
     <<"datastep.file_utils", objects_datastep_file_utils>>,
     <<"datastep.quilt_utils", objects_datastep_quilt_utils>>,
     <<"datastep.quilt_utils.ValidationDetails", objects_datastep_quilt_utils_ValidationDetails>>,
     <<"datastep.step", objects_datastep_step>>,
     <<"datastep.step.Step", objects_datastep_step_Step>>, <<"datastep", objects_datastep>> >>)

objnames ==
  Obj(<< <<"0", Arr(<<"py", "module", "Python module">>)>>,
     <<"1", Arr(<<"py", "class", "Python class">>)>>,
     <<"2", Arr(<<"py", "function", "Python function">>)>>,
     <<"3", Arr(<<"py", "exception", "Python exception">>)>>,
     <<"4", Arr(<<"py", "method", "Python method">>)>> >>)

\* objtypes without the code of methods
objtypes_noMethod ==
  Obj(<< <<"0", Str("py:module")>>, <<"1", Str("py:class")>>, <<"2", Str("py:function")>>,
     <<"3", Str("py:exception")>> >>)

objtypes ==
  Obj(<< <<"0", Str("py:module")>>, <<"1", Str("py:class")>>, <<"2", Str("py:function")>>,
     <<"3", Str("py:exception")>>, <<"4", Str("py:method")>> >>)

terms ==
  Obj(<< <<"class", Arr(<<1, 2, 3>>)>>, <<"default", Num(1)>>, <<"final", Num(1)>>,
     <<"float", Num(1)>>, <<"function", Arr(<<1, 3>>)>>, <<"int", Num(1)>>,
     <<"new", Arr(<<1, 3>>)>>, <<"public", Num(4)>>, <<"return", Num(1)>>, <<"short", Num(0)>>,
     <<"true", Num(1)>>, <<"For", Num(3)>>, <<"The", Arr(<<1, 4>>)>>, <<"Then", Num(0)>>,
     <<"There", Num(1)>>, <<"Useful", Num(1)>>, <<"absolut", Num(1)>>, <<"add", Num(0)>>,
     <<"address", Num(1)>>, <<"after", Num(1)>>, <<"alia", Num(1)>>, <<"all", Arr(<<0, 1>>)>>,
     <<"allen", Num(3)>>, <<"allencellmodel", Arr(<<3, 4>>)>>, <<"also", Num(0)>>,
     <<"alwai", Arr(<<0, 1, 4>>)>>, <<"amount", Num(3)>>, <<"anaconda", Num(0)>>,
     <<"ani", Num(1)>>, <<"anoth", Num(1)>>, <<"appreci", Num(0)>>, <<"arg", Num(2)>>,
     <<"argpars", Num(2)>>, <<"attempt", Num(1)>>, <<"base", Arr(<<1, 2, 3>>)>>,
     <<"becom", Num(1)>>, <<"bin", Arr(<<1, 5>>)>>, <<"bit", Num(0)>>, <<"bool", Num(1)>>,
     <<"branch", Num(0)>>, <<"bucket", Num(1)>>, <<"bugfix", Num(0)>>, <<"build", Num(0)>>,
     <<"bumpvers", Arr(<<0, 3>>)>>, <<"can", Arr(<<0, 1, 4>>)>>, <<"centric", Num(3)>>,
     <<"chang", Num(0)>>, <<"check", Num(0)>>, <<"checkout", Arr(<<0, 1>>)>>,
     <<"clean", Num(1)>>, <<"clean_metadata", Num(1)>>, <<"clone", Arr(<<0, 4>>)>>,
     <<"code", Arr(<<1, 3>>)>>, <<"column", Num(1)>>, <<"com", Arr(<<0, 3, 4>>)>>,
     <<"command", Num(4)>>, <<"commit", Arr(<<0, 1>>)>>, <<"complet", Num(1)>>,
     <<"comput", Num(1)>>, <<"config", Num(1)>>, <<"constant", Num(5)>>, <<"content", Num(5)>>,
     <<"context", Arr(<<1, 3>>)>>, <<"contribut", Num(3)>>, <<"convert", Num(1)>>,
     <<"cookiecutt", Num(3)>>, <<"copi", Num(4)>>, <<"core", Num(1)>>,
     <<"creat", Arr(<<0, 1, 3>>)>>, <<"create_packag", Num(1)>>,
     <<"create_unique_logical_kei", Num(1)>>, <<"credit", Num(0)>>, <<"csv", Num(1)>>,
     <<"curl", Num(4)>>, <<"dag", Arr(<<1, 3>>)>>, <<"data", Arr(<<1, 3>>)>>,
     <<"data_vers", Num(1)>>, <<"datafram", Num(1)>>, <<"datastep", Arr(<<0, 4>>)>>,
     <<"debug", Num(1)>>, <<"defin", Num(1)>>, <<"depend", Num(1)>>, <<"dependeci", Num(1)>>,
     <<"deploi", Num(2)>>, <<"descript", Num(0)>>, <<"detail", Arr(<<0, 1>>)>>,
     <<"details_typ", Num(1)>>, <<"dev", Num(0)>>, <<"develop", Arr(<<0, 1>>)>>,
     <<"dict", Num(1)>>, <<"dictionari", Num(1)>>, <<"differ", Num(1)>>,
     <<"direct_upstream_task", Num(1)>>, <<"directori", Arr(<<1, 2>>)>>,
     <<"directorynotfounderror", Num(1)>>, <<"distributed_executor_address", Num(1)>>,
     <<"don", Num(4)>>, <<"done", Num(0)>>, <<"download", Num(4)>>, <<"downstream", Num(1)>>,
     <<"dure", Num(1)>>, <<"each", Num(3)>>, <<"easier", Num(1)>>, <<"edit", Num(0)>>,
     <<"either", Num(4)>>, <<"enforc", Num(1)>>, <<"engin", Num(1)>>, <<"entir", Num(1)>>,
     <<"environ", Num(0)>>, <<"etc", Num(1)>>, <<"everi", Num(0)>>, <<"except", Num(5)>>,
     <<"executor", Num(1)>>, <<"fals", Num(1)>>, <<"featur", Num(0)>>, <<"few", Num(1)>>,
     <<"field", Num(1)>>, <<"file", Arr(<<0, 1>>)>>, <<"file_util", Num(5)>>,
     <<"filepath", Num(1)>>, <<"filepath_column", Num(1)>>, <<"find_last_import_lin", Num(2)>>,
     <<"first", Num(1)>>, <<"flag", Num(1)>>, <<"flow", Num(1)>>, <<"follow", Num(1)>>,
     <<"fork", Num(0)>>, <<"found", Num(0)>>, <<"frame", Num(1)>>, <<"free", Num(3)>>,
     <<"from", Arr(<<1, 3>>)>>, <<"full", Num(3)>>, <<"func", Num(1)>>, <<"gener", Num(1)>>,
     <<"get", Arr(<<1, 2, 3>>)>>, <<"get_module_vers", Num(1)>>, <<"get_result", Num(1)>>,
     <<"git", Arr(<<0, 1, 3, 4>>)>>, <<"github", Arr(<<0, 3, 4>>)>>, <<"given", Num(0)>>,
     <<"greatli", Num(0)>>, <<"guid", Num(4)>>, <<"handl", Arr(<<0, 1>>)>>, <<"hard", Num(1)>>,
     <<"have", Num(4)>>, <<"haven", Num(1)>>, <<"head", Num(3)>>, <<"heavi", Num(1)>>,
     <<"heavili", Num(3)>>, <<"help", Num(0)>>, <<"here", Arr(<<0, 1>>)>>,
     <<"how", Arr(<<0, 1>>)>>, <<"howev", Num(1)>>, <<"http", Arr(<<3, 4>>)>>,
     <<"idea", Num(3)>>, <<"includ", Num(0)>>, <<"index", Arr(<<1, 3>>)>>, <<"inform", Num(3)>>,
     <<"inherit", Num(1)>>, <<"initi", Num(1)>>, <<"insert_new_class", Num(2)>>,
     <<"insert_new_import", Num(2)>>, <<"instal", Arr(<<0, 2>>)>>, <<"instanc", Num(1)>>,
     <<"institut", Num(3)>>, <<"invalidgitstatu", Num(1)>>, <<"isn", Num(1)>>,
     <<"item", Num(1)>>, <<"iter", Num(1)>>, <<"itself", Num(3)>>, <<"json", Num(1)>>,
     <<"kwarg", Num(1)>>, <<"larg", Num(3)>>, <<"last_old_lin", Num(2)>>, <<"latest", Num(1)>>,
     <<"level", Num(1)>>, <<"librari", Num(3)>>, <<"licens", Num(3)>>, <<"line", Num(2)>>,
     <<"line_match__all__", Num(2)>>, <<"lint", Num(0)>>, <<"list", Num(1)>>,
     <<"list_match_in_lin", Num(2)>>, <<"littl", Num(0)>>, <<"local", Arr(<<0, 1>>)>>,
     <<"log", Num(1)>>, <<"log_run_param", Num(1)>>, <<"look", Num(3)>>, <<"lowercas", Num(1)>>,
     <<"main", Num(2)>>, <<"maintain", Num(0)>>, <<"major", Num(0)>>,
     <<"make", Arr(<<0, 1, 3>>)>>, <<"make_json_serializ", Num(1)>>,
     <<"make_new_step", Arr(<<1, 5>>)>>, <<"manag", Num(1)>>, <<"manifest", Num(1)>>,
     <<"manifest_filepaths_abs2rel", Num(1)>>, <<"manifest_filepaths_rel2ab", Num(1)>>,
     <<"manipul", Num(1)>>, <<"map", Num(1)>>, <<"master", Num(4)>>, <<"match", Num(1)>>,
     <<"mean", Num(1)>>, <<"merg", Num(0)>>, <<"metadata", Num(1)>>,
     <<"metadata_column", Num(1)>>, <<"method", Arr(<<1, 4>>)>>, <<"minor", Num(0)>>,
     <<"mode", Num(0)>>, <<"modul", Arr(<<3, 5>>)>>, <<"more", Arr(<<1, 3>>)>>,
     <<"most", Arr(<<1, 4>>)>>, <<"much", Num(1)>>, <<"name", Num(1)>>, <<"namespac", Num(2)>>,
     <<"need", Num(1)>>, <<"new_class_dir_str", Num(2)>>, <<"new_class_name_str", Num(2)>>,
     <<"none", Num(1)>>, <<"note", Num(1)>>, <<"now", Num(0)>>, <<"number", Num(1)>>,
     <<"object", Num(1)>>, <<"old_list_str", Num(2)>>, <<"onc", Arr(<<0, 4>>)>>,
     <<"onli", Num(1)>>, <<"option", Num(1)>>, <<"origin", Arr(<<0, 1>>)>>,
     <<"origin_column", Num(1)>>, <<"other", Arr(<<0, 1>>)>>, <<"our", Num(1)>>,
     <<"output", Num(1)>>, <<"packag", Arr(<<3, 5>>)>>, <<"packagingerror", Num(1)>>,
     <<"page", Num(3)>>, <<"pair", Num(3)>>, <<"panda", Num(1)>>, <<"paramet", Num(1)>>,
     <<"parent", Num(2)>>, <<"parquet", Num(1)>>, <<"part", Num(1)>>, <<"pass", Arr(<<0, 1>>)>>,
     <<"patch", Num(0)>>, <<"path", Num(1)>>, <<"pathlib", Num(1)>>, <<"physical_kei", Num(1)>>,
     <<"pickabl", Num(1)>>, <<"pip", Arr(<<0, 2, 3, 4>>)>>, <<"place", Num(1)>>,
     <<"pleas", Num(3)>>, <<"possibl", Num(0)>>, <<"preconfigur", Num(1)>>,
     <<"prefect", Num(1)>>, <<"prefer", Num(4)>>, <<"previous", Num(1)>>, <<"prior", Num(1)>>,
     <<"problem", Num(1)>>, <<"process", Arr(<<1, 4>>)>>, <<"produc", Num(1)>>,
     <<"progress_bar", Num(1)>>, <<"project", Num(0)>>, <<"project_local_staging_dir", Num(1)>>,
     <<"properti", Num(1)>>, <<"protect", Num(1)>>, <<"pull", Arr(<<0, 1>>)>>,
     <<"pure", Num(1)>>, <<"purpos", Num(1)>>, <<"push", Arr(<<0, 1>>)>>, <<"py_txt", Num(2)>>,
     <<"pypi", Num(0)>>, <<"python", Arr(<<0, 4>>)>>, <<"quilt3", Num(1)>>, <<"quilt", Num(1)>>,
     <<"quilt_package_nam", Num(1)>>, <<"quilt_package_own", Num(1)>>, <<"quilt_util", Num(5)>>,
     <<"ran", Num(1)>>, <<"rare", Num(3)>>, <<"read", Num(0)>>, <<"readi", Arr(<<0, 1>>)>>,
     <<"recent", Arr(<<1, 4>>)>>, <<"reciev", Num(1)>>, <<"recommend", Num(0)>>,
     <<"recurs", Num(0)>>, <<"refer", Num(1)>>, <<"reject", Num(1)>>, <<"rel", Num(1)>>,
     <<"relat", Num(3)>>, <<"relative_dir", Num(1)>>, <<"releas", Num(3)>>, <<"reli", Num(1)>>,
     <<"remind", Num(0)>>, <<"remot", Num(1)>>, <<"remov", Num(1)>>, <<"repo", Arr(<<0, 4>>)>>,
     <<"repositori", Num(4)>>, <<"request", Arr(<<0, 1>>)>>, <<"requir", Num(1)>>,
     <<"reset", Num(1)>>, <<"resolv", Num(0)>>, <<"resolve_directori", Num(1)>>,
     <<"resolve_filepath", Num(1)>>, <<"result", Num(1)>>, <<"retriev", Num(1)>>,
     <<"rich", Num(3)>>, <<"route_valid", Num(1)>>, <<"run", Arr(<<0, 1, 4>>)>>,
     <<"sampl", Num(2)>>, <<"script", Num(2)>>, <<"search", Num(3)>>, <<"see", Num(3)>>,
     <<"send", Num(1)>>, <<"set", Arr(<<0, 1>>)>>, <<"setup", Num(4)>>,
     <<"should", Arr(<<1, 3>>)>>, <<"shouldn", Num(1)>>, <<"softwar", Num(3)>>,
     <<"sole", Num(1)>>, <<"some", Num(1)>>, <<"sourc", Arr(<<1, 2>>)>>, <<"specif", Num(1)>>,
     <<"stabl", Arr(<<0, 3>>)>>, <<"stage", Num(1)>>, <<"start", Num(3)>>, <<"state", Num(1)>>,
     <<"statu", Num(1)>>, <<"step", Arr(<<3, 5>>)>>, <<"step_local_staging_dir", Num(1)>>,
     <<"step_nam", Num(1)>>, <<"step_pkg_root", Num(1)>>, <<"stepwis", Num(1)>>,
     <<"stepworkflow", Num(3)>>, <<"storage_bucket", Num(1)>>, <<"store", Num(1)>>,
     <<"str", Num(1)>>, <<"strict", Num(1)>>, <<"string", Num(1)>>, <<"submit", Num(0)>>,
     <<"submodul", Arr(<<0, 5>>)>>, <<"subpackag", Num(5)>>, <<"support", Num(1)>>,
     <<"sure", Num(0)>>, <<"tag", Num(0)>>, <<"tarbal", Num(4)>>, <<"task", Num(1)>>,
     <<"termin", Num(4)>>, <<"test", Num(0)>>, <<"thei", Num(0)>>, <<"them", Num(1)>>,
     <<"thi", Arr(<<1, 2, 3, 4>>)>>, <<"those", Num(1)>>, <<"though", Num(1)>>,
     <<"through", Arr(<<0, 1, 4>>)>>, <<"tied", Arr(<<1, 3>>)>>, <<"tiff", Num(0)>>,
     <<"top", Num(1)>>, <<"tupl", Num(1)>>, <<"type", Num(1)>>, <<"union", Num(1)>>,
     <<"upload", Num(1)>>, <<"upstream", Num(1)>>, <<"upstream_task", Num(1)>>,
     <<"use", Num(1)>>, <<"used", Arr(<<1, 3>>)>>, <<"user", Arr(<<1, 2>>)>>,
     <<"using", Arr(<<1, 2, 3>>)>>, <<"util", Arr(<<1, 3>>)>>, <<"validate_filepath", Num(1)>>,
     <<"validate_manifest", Num(1)>>, <<"validationdetail", Num(1)>>, <<"valu", Num(1)>>,
     <<"version", Arr(<<0, 1>>)>>, <<"virtualenv", Arr(<<0, 2>>)>>, <<"visit", Num(3)>>,
     <<"want", Num(1)>>, <<"websit", Num(0)>>, <<"welcom", Num(0)>>, <<"what", Num(1)>>,
     <<"when", Arr(<<0, 1, 2>>)>>, <<"which", Num(1)>>, <<"work", Num(0)>>,
     <<"workflow", Arr(<<1, 3>>)>>, <<"workflow_config", Num(1)>>, <<"would", Num(1)>>,
     <<"you", Arr(<<0, 1, 3, 4>>)>>, <<"your", Arr(<<0, 1, 4>>)>>,
     <<"your_development_typ", Num(0)>>, <<"your_name_her", Num(0)>> >>)

\* the source writes the apostrophe of the fourth title as the escape \u2019
titles ==
  Arr(<< "Contributing", "datastep package", "datastep.bin package",
     "Welcome to datastep's documentation!", "Installation", "datastep" >>)

\* titleterms with the single document of "bin" written as a one-element sequence
titleterms_singleton ==
  Obj(<< <<"bin", Arr(<<2>>)>>, <<"constant", Num(1)>>, <<"content", Arr(<<1, 2>>)>>,
     <<"contribut", Num(0)>>, <<"datastep", Arr(<<1, 2, 3, 5>>)>>, <<"deploi", Num(0)>>,
     <<"develop", Num(3)>>, <<"document", Num(3)>>, <<"except", Num(1)>>,
     <<"file_util", Num(1)>>, <<"from", Num(4)>>, <<"get", Num(0)>>, <<"indic", Num(3)>>,
     <<"instal", Arr(<<3, 4>>)>>, <<"make_new_step", Num(2)>>, <<"modul", Arr(<<1, 2>>)>>,
     <<"packag", Arr(<<1, 2>>)>>, <<"quilt_util", Num(1)>>, <<"releas", Num(4)>>,
     <<"sourc", Num(4)>>, <<"stabl", Num(4)>>, <<"start", Num(0)>>, <<"step", Num(1)>>,
     <<"submodul", Arr(<<1, 2>>)>>, <<"subpackag", Num(1)>>, <<"tabl", Num(3)>>,
     <<"welcom", Num(3)>> >>)

titleterms ==
  Obj(<< <<"bin", Num(2)>>, <<"constant", Num(1)>>, <<"content", Arr(<<1, 2>>)>>,
     <<"contribut", Num(0)>>, <<"datastep", Arr(<<1, 2, 3, 5>>)>>, <<"deploi", Num(0)>>,
     <<"develop", Num(3)>>, <<"document", Num(3)>>, <<"except", Num(1)>>,
     <<"file_util", Num(1)>>, <<"from", Num(4)>>, <<"get", Num(0)>>, <<"indic", Num(3)>>,
     <<"instal", Arr(<<3, 4>>)>>, <<"make_new_step", Num(2)>>, <<"modul", Arr(<<1, 2>>)>>,
     <<"packag", Arr(<<1, 2>>)>>, <<"quilt_util", Num(1)>>, <<"releas", Num(4)>>,
     <<"sourc", Num(4)>>, <<"stabl", Num(4)>>, <<"start", Num(0)>>, <<"step", Num(1)>>,
     <<"submodul", Arr(<<1, 2>>)>>, <<"subpackag", Num(1)>>, <<"tabl", Num(3)>>,
     <<"welcom", Num(3)>> >>)

\* the index literal without envversion
IndexLiteral_noEnvversion ==
  Obj(<< <<"docnames", docnames>>, <<"filenames", filenames>>,
     <<"objects", objects>>, <<"objnames", objnames>>, <<"objtypes", objtypes>>,
     <<"terms", terms>>, <<"titles", titles>>, <<"titleterms", titleterms>> >>)

IndexLiteral ==
  Obj(<< <<"docnames", docnames>>, <<"envversion", envversion>>, <<"filenames", filenames>>,
     <<"objects", objects>>, <<"objnames", objnames>>, <<"objtypes", objtypes>>,
     <<"terms", terms>>, <<"titles", titles>>, <<"titleterms", titleterms>> >>)

(***************************************************************************)
(* The program: the statements of the file, in order.                      *)
(***************************************************************************)
\* a file that sets the index a second time
Program_setTwice ==
  << [callee |-> "Search.setIndex", arg |-> IndexLiteral],
     [callee |-> "Search.setIndex", arg |-> Obj(<< <<"docnames", Arr(<< >>)>> >>)] >>

Program ==
  << [callee |-> "Search.setIndex", arg |-> IndexLiteral] >>

(***************************************************************************)
(* Evaluation of an object literal: CreateDataProperty for each property   *)
(* definition, left to right.                                              *)
(***************************************************************************)
Put(o, k, v) ==
  [x \in (DOMAIN o) \cup {k} |-> IF x = k THEN v ELSE o[x]]

RECURSIVE Eval(_)
RECURSIVE EvalProps(_, _)

EvalProps(props, n) ==
  IF n = 0 THEN <<>>
  ELSE Put(EvalProps(props, n - 1), props[n][1], Eval(props[n][2]))

Eval(node) ==
  IF node.kind = "objlit"
  THEN ObjVal(EvalProps(node.props, Len(node.props)))
  ELSE node

\* the property definitions of the argument of statement s
Props(s) == Program[s].arg.props

Init ==
  /\ stmt = 1
  /\ pc = "eval"
  /\ top = 0
  /\ inner = 0
  /\ cur = <<>>
  /\ obj = <<>>
  /\ index = Undefined
  /\ calls = 0

\* a property of the index literal whose value is not an object literal
DefineProperty ==
  /\ pc = "eval"
  /\ top < Len(Props(stmt))
  /\ LET p == Props(stmt)[top + 1] IN
       /\ p[2].kind # "objlit"
       /\ obj' = Put(obj, p[1], Eval(p[2]))
  /\ top' = top + 1
  /\ UNCHANGED <<stmt, pc, inner, cur, index, calls>>

\* one property of a nested object literal (an entry of envversion, objects,
\* objnames, objtypes, terms or titleterms)
DefineNested ==
  /\ pc = "eval"
  /\ top < Len(Props(stmt))
  /\ LET p == Props(stmt)[top + 1] IN
       /\ p[2].kind = "objlit"
       /\ inner < Len(p[2].props)
       /\ LET e == p[2].props[inner + 1] IN
            cur' = Put(cur, e[1], Eval(e[2]))
  /\ inner' = inner + 1
  /\ UNCHANGED <<stmt, pc, top, obj, index, calls>>

\* the closing brace of a nested object literal: the property is defined
CloseNested ==
  /\ pc = "eval"
  /\ top < Len(Props(stmt))
  /\ LET p == Props(stmt)[top + 1] IN
       /\ p[2].kind = "objlit"
       /\ inner = Len(p[2].props)
       /\ obj' = Put(obj, p[1], ObjVal(cur))
  /\ top' = top + 1
  /\ inner' = 0
  /\ cur' = <<>>
  /\ UNCHANGED <<stmt, pc, index, calls>>

\* the call: Search.setIndex stores its argument as the index
SetIndex ==
  /\ pc = "eval"
  /\ top = Len(Props(stmt))
  /\ Program[stmt].callee = "Search.setIndex"
  /\ index' = ObjVal(obj)
  /\ calls' = calls + 1
  /\ stmt' = stmt + 1
  /\ pc' = IF stmt + 1 > Len(Program) THEN "done" ELSE "eval"
  /\ top' = 0
  /\ inner' = 0
  /\ cur' = <<>>
  /\ obj' = <<>>

Next ==
  \/ DefineProperty
  \/ DefineNested
  \/ CloseNested
  \/ SetIndex

Spec == Init /\ [][Next]_vars

(***************************************************************************)
(* Reading the index.                                                      *)
(***************************************************************************)
IndexSet == index.kind = "object"

Field(name) == index.map[name]

NumDocs == Len(Field("docnames").elems)

IsDocIndex(i) == 0 <= i /\ i < NumDocs

\* a number used as a property key is converted to its decimal string
PropertyKey(n) == ToString(n)

DocIndexKeys == {PropertyKey(i) : i \in 0 .. NumDocs - 1}

\* all <<namespace, symbol name>> pairs of objects
ObjectEntries ==
  {<<p, n>> \in (DOMAIN Field("objects").map) \X
                UNION {DOMAIN Field("objects").map[q].map : q \in DOMAIN Field("objects").map} :
     n \in DOMAIN Field("objects").map[p].map}

Entry(pn) == Field("objects").map[pn[1]].map[pn[2]]

\* the documents a value of terms or titleterms refers to
Postings(v) ==
  IF v.kind = "array" THEN {v.elems[j] : j \in 1 .. Len(v.elems)} ELSE {v.num}

UpperCase ==
  {"A", "B", "C", "D", "E", "F", "G", "H", "I", "J", "K", "L", "M",
   "N", "O", "P", "Q", "R", "S", "T", "U", "V", "W", "X", "Y", "Z"}

HasUpper(s) == \E i \in 1 .. Len(s) : SubSeq(s, i, i) \in UpperCase

\* position of the last dot of s, 0 when s has none
LastDot(s) ==
  LET D == {i \in 1 .. Len(s) : SubSeq(s, i, i) = "."} IN
    IF D = {} THEN 0 ELSE CHOOSE i \in D : \A j \in D : j <= i

Prefix(s) == IF LastDot(s) = 0 THEN "" ELSE SubSeq(s, 1, LastDot(s) - 1)

Name(s) == SubSeq(s, LastDot(s) + 1, Len(s))

StrictlyIncreasing(q) == \A j \in 1 .. Len(q) - 1 : q[j] < q[j + 1]

Section3Keys ==
  {"docnames", "filenames", "objects", "objnames", "objtypes", "terms", "titles",
   "titleterms"}

CategoryLabels == {"module", "class", "function", "exception", "method"}

(***************************************************************************)
(* C1: every document index referenced in objects (first component of an   *)
(* entry), terms and titleterms (a bare index or each element of a         *)
(* sequence) lies in 0 .. Len(docnames) - 1.                               *)
(***************************************************************************)
C1_DocIndicesInBounds ==
  IndexSet =>
    /\ \A pn \in ObjectEntries : IsDocIndex(Entry(pn).elems[1])
    /\ \A t \in DOMAIN Field("terms").map :
         \A i \in Postings(Field("terms").map[t]) : IsDocIndex(i)
    /\ \A t \in DOMAIN Field("titleterms").map :
         \A i \in Postings(Field("titleterms").map[t]) : IsDocIndex(i)

C1_Witness ==
  /\ IndexSet
  /\ ObjectEntries # {}
  /\ \E t \in DOMAIN Field("terms").map :
       /\ Field("terms").map[t].kind = "array"
       /\ NumDocs - 1 \in Postings(Field("terms").map[t])
  /\ \E t \in DOMAIN Field("titleterms").map :
       Field("titleterms").map[t].kind = "number"

(***************************************************************************)
(* C2 as stated: the object passed to Search.setIndex has exactly six      *)
(* top-level keys, the keys enumerated in section 3 of the specification.  *)
(***************************************************************************)
C2_SixKeys ==
  IndexSet =>
    /\ Cardinality(DOMAIN index.map) = 6
    /\ DOMAIN index.map = Section3Keys

(***************************************************************************)
(* C2 amended: the object passed to Search.setIndex has exactly nine       *)
(* top-level keys: the eight keys named in section 3 and envversion.       *)
(***************************************************************************)
C2_NineKeys ==
  IndexSet =>
    /\ Cardinality(DOMAIN index.map) = 9
    /\ DOMAIN index.map = Section3Keys \cup {"envversion"}

C2_Witness ==
  /\ IndexSet
  /\ calls = 1
  /\ "envversion" \in DOMAIN index.map
  /\ Field("envversion").kind = "object"

(***************************************************************************)
(* C3: filenames and titles are parallel to docnames: each has exactly     *)
(* Len(docnames) entries.                                                  *)
(***************************************************************************)
C3_ParallelSequences ==
  IndexSet =>
    /\ Len(Field("filenames").elems) = NumDocs
    /\ Len(Field("titles").elems) = NumDocs

C3_Witness ==
  /\ IndexSet
  /\ NumDocs > 1
  /\ Field("filenames").kind = "array"
  /\ Field("titles").kind = "array"

(***************************************************************************)
(* C4 as stated: every top-level key of objects is a document index of     *)
(* docnames, and every inner value has exactly four components.            *)
(***************************************************************************)
C4_KeysAreDocIndices ==
  IndexSet =>
    /\ \A p \in DOMAIN Field("objects").map : p \in DocIndexKeys
    /\ \A pn \in ObjectEntries : Len(Entry(pn).elems) = 4

(***************************************************************************)
(* C4 amended: objects maps a namespace name (never a document index) to   *)
(* a mapping of symbol name to a 4-tuple (document index, object-type      *)
(* code, priority, anchor): no top-level key of objects is a document      *)
(* index, every top-level value is a mapping, and every inner value has    *)
(* exactly four components in that order.                                  *)
(***************************************************************************)
C4_NamespaceToFourTuples ==
  IndexSet =>
    /\ \A p \in DOMAIN Field("objects").map :
         /\ p \notin DocIndexKeys
         /\ Field("objects").map[p].kind = "object"
    /\ \A pn \in ObjectEntries :
         /\ Entry(pn).kind = "array"
         /\ Len(Entry(pn).elems) = 4
         /\ IsDocIndex(Entry(pn).elems[1])
         /\ PropertyKey(Entry(pn).elems[2]) \in DOMAIN Field("objtypes").map
         /\ Entry(pn).elems[3] \in {0, 1}
         /\ Entry(pn).elems[4] \in {"", "-"}

C4_Witness ==
  /\ IndexSet
  /\ "" \in DOMAIN Field("objects").map
  /\ \E pn \in ObjectEntries : pn[1] # "" /\ Len(Entry(pn).elems) = 4

(***************************************************************************)
(* C5: no key of terms contains an uppercase character.                    *)
(***************************************************************************)
C5_TermsLowercase ==
  IndexSet => \A t \in DOMAIN Field("terms").map : ~HasUpper(t)

(***************************************************************************)
(* C6: every object-type code of an entry of objects is a key of objnames  *)
(* and of objtypes, and the labels those codes map to are exactly module,  *)
(* class, function, exception and method.                                  *)
(***************************************************************************)
C6_TypeCodesNamed ==
  IndexSet =>
    LET codes == {PropertyKey(Entry(pn).elems[2]) : pn \in ObjectEntries} IN
      /\ codes \subseteq DOMAIN Field("objnames").map
      /\ codes \subseteq DOMAIN Field("objtypes").map
      /\ {Field("objnames").map[c].elems[2] : c \in codes} = CategoryLabels
      /\ \A c \in codes :
           Field("objtypes").map[c].str =
             Field("objnames").map[c].elems[1] \o ":" \o Field("objnames").map[c].elems[2]

C6_Witness ==
  /\ IndexSet
  /\ \E pn \in ObjectEntries : Entry(pn).elems[2] = 4
  /\ \E pn \in ObjectEntries : Entry(pn).elems[2] = 0

(***************************************************************************)
(* C7: the index is write-once: once set, no step changes it, and the      *)
(* program performs exactly one Search.setIndex call.                      *)
(***************************************************************************)
C7_WriteOnce ==
  [][/\ IndexSet => index' = index
     /\ calls' <= 1
     /\ pc' = "done" => calls' = 1]_vars

C7_Witness ==
  /\ pc = "done"
  /\ IndexSet
  /\ calls = 1
  /\ stmt > Len(Program)

(***************************************************************************)
(* C8: a value of terms or titleterms that is a sequence has at least two  *)
(* elements and is strictly increasing; a single document is stored as a   *)
(* bare index.                                                             *)
(***************************************************************************)
C8_CanonicalPostings ==
  IndexSet =>
    \A f \in {"terms", "titleterms"} :
      \A t \in DOMAIN Field(f).map :
        LET v == Field(f).map[t] IN
          /\ v.kind \in {"array", "number"}
          /\ v.kind = "array" =>
               /\ Len(v.elems) >= 2
               /\ StrictlyIncreasing(v.elems)

C8_Witness ==
  /\ IndexSet
  /\ \E t \in DOMAIN Field("terms").map :
       /\ Field("terms").map[t].kind = "array"
       /\ Len(Field("terms").map[t].elems) >= 3
  /\ \E t \in DOMAIN Field("titleterms").map :
       /\ Field("titleterms").map[t].kind = "array"
       /\ Len(Field("titleterms").map[t].elems) = 2
  /\ \E t \in DOMAIN Field("terms").map : Field("terms").map[t].kind = "number"

(***************************************************************************)
(* C9: an entry of objects has type code 0 exactly when its priority is 0  *)
(* and its anchor is "-"; every other entry has priority 1 and anchor "".  *)
(***************************************************************************)
C9_PriorityAnchorByType ==
  IndexSet =>
    \A pn \in ObjectEntries :
      LET e == Entry(pn).elems IN
        /\ (e[2] = 0) <=> (e[3] = 0 /\ e[4] = "-")
        /\ e[2] # 0 => (e[3] = 1 /\ e[4] = "")

C9_Witness ==
  /\ IndexSet
  /\ \E pn \in ObjectEntries : Entry(pn).elems[2] = 0 /\ Entry(pn).elems[4] = "-"
  /\ \E pn \in ObjectEntries : Entry(pn).elems[2] # 0 /\ Entry(pn).elems[3] = 1

(***************************************************************************)
(* C10: every non-empty top-level key of objects, split at its last dot    *)
(* into (prefix, name), is defined in objects as name under prefix, with   *)
(* a module or class type code (0 or 1).                                   *)
(***************************************************************************)
C10_NamespaceClosed ==
  IndexSet =>
    \A p \in (DOMAIN Field("objects").map) \ {""} :
      /\ Prefix(p) \in DOMAIN Field("objects").map
      /\ Name(p) \in DOMAIN Field("objects").map[Prefix(p)].map
      /\ Field("objects").map[Prefix(p)].map[Name(p)].elems[2] \in {0, 1}

C10_Witness ==
  /\ IndexSet
  /\ \E p \in DOMAIN Field("objects").map :
       /\ LastDot(p) > 0
       /\ Field("objects").map[Prefix(p)].map[Name(p)].elems[2] = 1
  /\ \E p \in DOMAIN Field("objects").map : p # "" /\ LastDot(p) = 0

====
